---- MODULE Spec2Model ----
(***************************************************************************)
(* Model of the two one-shot solvers of part2_assignment:                  *)
(*   belts   (belts/main.cpp):   bounded flow through a belt network,      *)
(*           reduced to one max-flow solve on a transformed graph;         *)
(*   factory (factory/main.cpp): two-phase linear program over recipe      *)
(*           rates.                                                        *)
(* Quantities are integers: every double of the programs is an integral    *)
(* number of units here, so the 1e-9 tolerance compares as 0.              *)
(***************************************************************************)
EXTENDS Integers, Sequences, FiniteSets, TLC

VARIABLES
    program,     \* the executable that runs: "belts" or "factory"
    stdin,       \* the document on standard input
    run,         \* 1 in the run of the process, 2 in a second run on the same stdin
    first_run,   \* what the first run wrote and what its oracles were given and returned
    pc,          \* position of the process in solve_belts / solve_factory / main
    input,       \* the parsed JSON instance (<<>> before the read)
    index_to_name_map,         \* belts: name of every graph index
    edge_arc_index,            \* belts: Edge::arc_index of every original edge
    total_demand_from_s_star,  \* belts: capacity of the arcs leaving s_star
    arcs,        \* belts: arcs of the SimpleMaxFlow graph, in AddArcWithCapacity order
    arc_flow,    \* belts: flow of every arc after Solve
    max_flow,    \* belts: OptimalFlow()
    phase1,      \* factory: what the Phase 1 solve returned
    phase2,      \* factory: what the Phase 2 solve returned
    stdout,      \* sequence of JSON objects written to standard output
    stderr,      \* sequence of lines written to standard error
    exit_code    \* -1 while running, then the status main returns

belts_graph == <<index_to_name_map, edge_arc_index, total_demand_from_s_star, arcs>>
belts_vars == <<belts_graph, arc_flow, max_flow>>
factory_vars == <<phase1, phase2>>
process_vars == <<program, stdin, run, first_run>>
vars == <<process_vars, pc, input, belts_vars, factory_vars, stdout, stderr, exit_code>>

----------------------------------------------------------------------------
(* Generic helpers *)

Max2(a, b) == IF a >= b THEN a ELSE b

RECURSIVE SumSeq(_)
SumSeq(s) == IF s = <<>> THEN 0 ELSE s[1] + SumSeq(Tail(s))

RECURSIVE SumFun(_, _)
\* sum of f[k] over the keys k in S
SumFun(f, S) ==
    IF S = {} THEN 0
    ELSE LET k == CHOOSE x \in S : TRUE IN f[k] + SumFun(f, S \ {k})

\* all sequences over S of length at most n
SeqsUpTo(S, n) == UNION {[1..k -> S] : k \in 0..n}

----------------------------------------------------------------------------
(* belts: the instance *)

MaxEdges  == 2      \* edges per instance
MaxSupply == 2      \* largest supply of a source
MaxCap    == 2      \* largest node cap
MaxLower  == 1      \* largest lower_bound
MaxUpper  == 2      \* largest upper_bound

\* Node names in the order std::set<std::string> iterates them.
NameOrder == <<"A", "B", "C">>
NodeNames == {NameOrder[i] : i \in 1..Len(NameOrder)}
\* a wrong iteration order, which is not the same in a second run (as that of a
\* container ordered by a per-process hash)
NamePosOfTheRun(n) ==
    LET i == CHOOSE k \in 1..Len(NameOrder) : NameOrder[k] = n
    IN  IF run = 2 THEN Len(NameOrder) + 1 - i ELSE i

\* position of a name in the iteration over all_node_names
NamePos(n) == CHOOSE i \in 1..Len(NameOrder) : NameOrder[i] = n

Edge == [from : NodeNames, to : NodeNames, lower_bound : 0..MaxLower, upper_bound : 0..MaxUpper]

\* The instances explored: sink C; sources {A} or {A, B}; a cap on at most one of
\* A (a source, so the cap is ignored) and B; edges without self-loops.
BeltsInputs ==
    [ sources   : [{"A"} -> 0..MaxSupply] \cup [{"A", "B"} -> {1}],
      sink      : {"C"},
      node_caps : {<<>>} \cup [{"B"} -> 0..MaxCap] \cup [{"A"} -> {1}],
      edges     : SeqsUpTo({e \in Edge : e.from # e.to}, MaxEdges) ]

\* Well-formed documents that lack one of the keys solve_belts reads (with at most
\* one edge: the edges play no part before the keys are read).
BeltsInputsLackingKey ==
    LET node_caps_ == {<<>>} \cup [{"B"} -> 0..MaxCap]
        sources_   == [{"A"} -> 0..MaxSupply]
        edges_     == SeqsUpTo({e \in Edge : e.from # e.to}, 1)
    IN  [sink : {"C"}, node_caps : node_caps_, edges : edges_]
        \cup [sources : sources_, node_caps : node_caps_, edges : edges_]
        \cup [sources : sources_, sink : {"C"}, node_caps : node_caps_]

\* What standard input may hold: text that is not JSON, or a JSON object.
BeltsStdin ==
    [wellformed : {FALSE}, json : {<<>>}]
    \cup [wellformed : {TRUE}, json : BeltsInputs \cup BeltsInputsLackingKey]

sources        == input.sources
sink_node      == input.sink
node_caps      == IF "node_caps" \in DOMAIN input THEN input.node_caps ELSE <<>>
\* a range-for over the null that input["edges"] makes of an absent key runs no step
original_edges == IF "edges" \in DOMAIN input THEN input.edges ELSE <<>>
NumEdges       == Len(original_edges)

all_node_names ==
    DOMAIN sources \cup {sink_node} \cup DOMAIN node_caps
    \cup {original_edges[k].from : k \in 1..NumEdges}
    \cup {original_edges[k].to : k \in 1..NumEdges}

---------------------------------------------------------------------------------------------------------------------------------------------------
(* belts: node indexing and node split *)

Tolerance == 0      \* 1e-9 on integral quantities

s_star == 0
t_star == 1

\* A capped intermediate node is split into v_in and v_out.
IsSplit(name) ==
    name \in DOMAIN node_caps /\ name \notin DOMAIN sources /\ name # sink_node

\* value of node_index_counter when the loop over all_node_names reaches `name`
InIndex(name) ==
    LET before == {m \in all_node_names : NamePos(m) < NamePos(name)}
    IN  2 + Cardinality(before) + Cardinality({m \in before : IsSplit(m)})

OutIndex(name) == IF IsSplit(name) THEN InIndex(name) + 1 ELSE InIndex(name)

\* node_index_counter after the loop
NodeIndexCount ==
    2 + Cardinality(all_node_names) + Cardinality({m \in all_node_names : IsSplit(m)})

\* index_to_name_map, as a map from the indices 0 .. NodeIndexCount - 1
IndexToName ==
    [i \in 0..(NodeIndexCount - 1) |->
        IF i = s_star THEN "s_star"
        ELSE IF i = t_star THEN "t_star"
        ELSE CHOOSE n \in all_node_names : i \in {InIndex(n), OutIndex(n)}]

get_name_from_index(index) ==
    IF index \in DOMAIN index_to_name_map THEN index_to_name_map[index]
    ELSE "INVALID_INDEX"

Arc(tail, head, capacity) == [tail |-> tail, head |-> head, capacity |-> capacity]

\* the v_in -> v_out arcs, in node order
RECURSIVE SplitArcs(_)
SplitArcs(i) ==
    IF i > Len(NameOrder) THEN <<>>
    ELSE LET name == NameOrder[i]
         IN  (IF name \in all_node_names /\ IsSplit(name)
              THEN <<Arc(InIndex(name), OutIndex(name), node_caps[name])>>
              ELSE <<>>) \o SplitArcs(i + 1)

----------------------------------------------------------------------------
(* belts: circulation with demands *)

total_supply == SumFun(sources, DOMAIN sources)
total_demand_at_sink == total_supply

\* index of the first edge with upper_bound < lower_bound, or 0
FirstBadEdge ==
    LET bad == {k \in 1..NumEdges :
                   original_edges[k].upper_bound - original_edges[k].lower_bound < -Tolerance}
    IN  IF bad = {} THEN 0 ELSE CHOOSE k \in bad : \A j \in bad : k <= j

\* the residual-capacity arcs of the original edges, in edge order
EdgeArcs(in, out) ==
    [k \in 1..NumEdges |->
        Arc(out[original_edges[k].from], in[original_edges[k].to],
            original_edges[k].upper_bound - original_edges[k].lower_bound)]

\* node_balance after the source, sink and lower-bound loops
NodeBalance(in, out) ==
    [i \in 2..(NodeIndexCount - 1) |->
        - SumFun(sources, {s \in DOMAIN sources : out[s] = i})
        + (IF in[sink_node] = i THEN total_supply ELSE 0)
        - SumSeq([k \in 1..NumEdges |->
                    IF out[original_edges[k].from] = i
                    THEN original_edges[k].lower_bound ELSE 0])
        + SumSeq([k \in 1..NumEdges |->
                    IF in[original_edges[k].to] = i
                    THEN original_edges[k].lower_bound ELSE 0])]

\* the arcs from s_star and to t_star, in the order of the node_balance map
RECURSIVE BalanceArcs(_, _)
BalanceArcs(node_balance, i) ==
    IF i \notin DOMAIN node_balance THEN <<>>
    ELSE (IF node_balance[i] > Tolerance THEN <<Arc(s_star, i, node_balance[i])>>
          ELSE IF node_balance[i] < -Tolerance THEN <<Arc(i, t_star, -node_balance[i])>>
          ELSE <<>>) \o BalanceArcs(node_balance, i + 1)

TotalDemandFromSStar(node_balance) ==
    SumFun([i \in DOMAIN node_balance |-> Max2(node_balance[i], 0)], DOMAIN node_balance)

-----
(* belts: the max-flow oracle (operations_research::SimpleMaxFlow) *)

NumArcs == Len(arcs)
\* SimpleMaxFlow::NumNodes(): one more than the largest index named by an arc
NumNodes ==
    IF arcs = <<>> THEN 0
    ELSE 1 + (CHOOSE m \in DOMAIN index_to_name_map :
                 /\ \E k \in 1..NumArcs : m \in {arcs[k].tail, arcs[k].head}
                 /\ \A k \in 1..NumArcs : arcs[k].tail <= m /\ arcs[k].head <= m)

RECURSIVE CapacityFlows(_)
\* every assignment of a flow within [0, capacity] to the arcs of as
CapacityFlows(as) ==
    IF as = <<>> THEN {<<>>}
    ELSE {Append(f, x) : f \in CapacityFlows(SubSeq(as, 1, Len(as) - 1)),
                         x \in 0..as[Len(as)].capacity}

Inflow(f, as, n)  == SumSeq([k \in 1..Len(as) |-> IF as[k].head = n THEN f[k] ELSE 0])
Outflow(f, as, n) == SumSeq([k \in 1..Len(as) |-> IF as[k].tail = n THEN f[k] ELSE 0])

IsTerminalArc(a) == a.tail = s_star \/ a.head = t_star

\* The flows of as that respect every capacity and conserve at every node but the
\* two terminals. A node has at most one arc to or from a terminal, and those arcs
\* come last, so such a flow is a flow g of the other arcs together with, on each
\* terminal arc, the imbalance g leaves at its node.
FeasibleArcFlows(as) ==
    LET inner == SelectSeq(as, LAMBDA a : ~IsTerminalArc(a))
        Extend(g) ==
            [k \in 1..Len(as) |->
                IF k <= Len(inner) THEN g[k]
                ELSE IF as[k].tail = s_star
                     THEN Outflow(g, inner, as[k].head) - Inflow(g, inner, as[k].head)
                     ELSE Inflow(g, inner, as[k].tail) - Outflow(g, inner, as[k].tail)]
    IN  {f \in {Extend(g) : g \in CapacityFlows(inner)} :
            /\ \A k \in 1..Len(as) : 0 <= f[k] /\ f[k] <= as[k].capacity
            /\ \A n \in DOMAIN index_to_name_map \ {s_star, t_star} : Inflow(f, as, n) = Outflow(f, as, n)}

FlowValue(f, as) == Outflow(f, as, s_star) - Inflow(f, as, s_star)

\* Solve(s_star, t_star) ends OPTIMAL with some maximum flow
MaxFlows(as) ==
    LET F    == FeasibleArcFlows(as)
        best == CHOOSE f \in F : \A g \in F : FlowValue(g, as) <= FlowValue(f, as)
    IN  {f \in F : FlowValue(f, as) = FlowValue(best, as)}

RECURSIVE ResidualReach(_)
\* closure of R under arcs with residual capacity (forward: flow < capacity,
\* backward: flow > 0)
ResidualReach(R) ==
    LET next == R \cup {arcs[k].head : k \in {j \in 1..NumArcs :
                            arcs[j].tail \in R /\ arc_flow[j] < arcs[j].capacity}}
                   \cup {arcs[k].tail : k \in {j \in 1..NumArcs :
                            arcs[j].head \in R /\ arc_flow[j] > 0}}
    IN  IF next = R THEN R ELSE ResidualReach(next)

\* GetSourceSideMinCut
cut_indices == ResidualReach({s_star})

----------------------------------------------------------------------------
(* belts: certificate and plan *)

\* JSON values of the certificate, by kind. A std::set or a json::array() is
\* written as an array; a braced list of {key, value} pairs makes an object; an
\* empty pair of braces in the place of a value makes a null.
JsonArray(items)    == [kind |-> "array", items |-> items]
JsonObject(members) == [kind |-> "object", members |-> members]
JsonNull            == [kind |-> "null"]

reachable_nodes == {get_name_from_index(idx) : idx \in cut_indices \ {s_star}}

\* arc arc_idx leaves node u across the cut; both ends are judged by their names
\* against the name set R (reachable_nodes)
CrossesCut(R, u, arc_idx) ==
    /\ get_name_from_index(u) \in R
    /\ arcs[arc_idx].tail = u
    /\ get_name_from_index(arcs[arc_idx].head) \notin R

IsOriginalArc(arc_idx) == \E k \in 1..NumEdges : edge_arc_index[k] = arc_idx

tight_nodes_set(R) ==
    {get_name_from_index(u) : u \in {v \in 0..(NumNodes - 1) :
        /\ get_name_from_index(v) \in DOMAIN node_caps
        /\ \E arc_idx \in 1..NumArcs : CrossesCut(R, v, arc_idx) /\ ~IsOriginalArc(arc_idx)}}

TightEdge(arc_idx) ==
    LET k == CHOOSE j \in 1..NumEdges : edge_arc_index[j] = arc_idx
    IN  [from |-> original_edges[k].from, to |-> original_edges[k].to,
         flow_needed |-> "at capacity"]

RECURSIVE tight_edges_json(_, _, _)
\* the double loop over u and arc_idx, from position (u, arc_idx) on
tight_edges_json(R, u, arc_idx) ==
    IF u >= NumNodes THEN <<>>
    ELSE IF arc_idx > NumArcs THEN tight_edges_json(R, u + 1, 1)
    ELSE (IF CrossesCut(R, u, arc_idx) /\ IsOriginalArc(arc_idx)
          THEN <<TightEdge(arc_idx)>> ELSE <<>>) \o tight_edges_json(R, u, arc_idx + 1)

\* a wrong read-back, which forgets to add the lower bound back
final_flow_without_lower_bound(k) == arc_flow[edge_arc_index[k]]

\* f_original = f_residual + lower_bound
final_flow(k) == arc_flow[edge_arc_index[k]] + original_edges[k].lower_bound

\* the `flows` array: edges in input order, those with flow <= tolerance left out
RECURSIVE FlowsJson(_)
FlowsJson(k) ==
    IF k > NumEdges THEN <<>>
    ELSE (IF final_flow(k) > Tolerance
          THEN <<[from |-> original_edges[k].from, to |-> original_edges[k].to,
                  flow |-> final_flow(k)]>>
          ELSE <<>>) \o FlowsJson(k + 1)

----------------------------------------------------------------------------
(* belts: the steps of solve_belts and main *)

\* a wrong main, which returns 0 from the catch-all as well
ExitStatusIgnoringException(threw) == 0

\* what main returns: 1 from the catch-all, 0 after solve_* has returned
ExitStatus(threw) == IF threw THEN 1 ELSE 0

InitBelts ==
    /\ program = "belts"
    /\ stdin \in BeltsStdin
    /\ run = 1
    /\ first_run = <<>>
    /\ input = <<>>
    /\ pc = "start"
    /\ stderr = <<>>
    /\ index_to_name_map = <<>>
    /\ edge_arc_index = <<>>
    /\ total_demand_from_s_star = 0
    /\ arcs = <<>>
    /\ arc_flow = <<>>
    /\ max_flow = 0
    /\ phase1 = <<>>
    /\ phase2 = <<>>
    /\ stdout = <<>>
    /\ exit_code = -1

\* std::cin >> input throws json::parse_error: the handler in solve_belts writes
\* the diagnostic and returns to main
BeltsParseError ==
    /\ program = "belts"
    /\ pc = "start"
    /\ ~stdin.wellformed
    /\ stderr' = Append(stderr, "JSON parse error")
    /\ pc' = "returned"
    /\ UNCHANGED <<process_vars, input, belts_vars, factory_vars, stdout, exit_code>>

\* the keys whose null (operator[] on an absent key) does not convert: sources to
\* a std::map, sink to a std::string
BeltsConvertedKeys == {"sources", "sink"}

\* the document parses and sources, sink, node_caps and edges are read from it
BeltsReadInput ==
    /\ program = "belts"
    /\ pc = "start"
    /\ stdin.wellformed
    /\ BeltsConvertedKeys \subseteq DOMAIN stdin.json
    /\ input' = stdin.json
    /\ pc' = "parsed"
    /\ UNCHANGED <<process_vars, belts_vars, factory_vars, stdout, stderr, exit_code>>

\* the conversion of an absent sources or sink throws json::type_error out of
\* solve_belts
BeltsReadThrows ==
    /\ program = "belts"
    /\ pc = "start"
    /\ stdin.wellformed
    /\ ~(BeltsConvertedKeys \subseteq DOMAIN stdin.json)
    /\ pc' = "thrown"
    /\ UNCHANGED <<process_vars, input, belts_vars, factory_vars, stdout, stderr, exit_code>>

\* an edge with upper_bound < lower_bound ends the run before any solve
PrecheckInfeasible ==
    /\ program = "belts"
    /\ pc = "parsed"
    /\ FirstBadEdge # 0
    /\ LET edge == original_edges[FirstBadEdge]
       IN  stdout' = Append(stdout,
              [status |-> "infeasible",
               cut_reachable |-> JsonNull,
               deficit |-> [demand_balance |-> total_demand_at_sink,
                            tight_nodes |-> JsonNull,
                            tight_edges |-> JsonObject(
                                [from |-> edge.from, to |-> edge.to,
                                 flow_needed |-> edge.upper_bound - edge.lower_bound])]])
    /\ pc' = "returned"
    /\ UNCHANGED <<process_vars, stderr, input, belts_vars, factory_vars, exit_code>>

BuildGraph ==
    /\ program = "belts"
    /\ pc = "parsed"
    /\ FirstBadEdge = 0
    /\ LET node_to_in_index  == [n \in all_node_names |-> InIndex(n)]
           node_to_out_index == [n \in all_node_names |-> OutIndex(n)]
           split_arcs        == SplitArcs(1)
           node_balance      == NodeBalance(node_to_in_index, node_to_out_index)
       IN  /\ index_to_name_map' = IndexToName
           /\ edge_arc_index' = [k \in 1..NumEdges |-> Len(split_arcs) + k]
           /\ arcs' = split_arcs \o EdgeArcs(node_to_in_index, node_to_out_index)
                                 \o BalanceArcs(node_balance, 2)
           /\ total_demand_from_s_star' = TotalDemandFromSStar(node_balance)
    /\ pc' = "built"
    /\ UNCHANGED <<process_vars, stderr, input, arc_flow, max_flow, factory_vars, stdout, exit_code>>

\* The max-flow solver is deterministic: in a second run that hands it the arcs
\* of the first run, in the same order, it returns the flow of the first run.
SameMaxFlowInput == run = 2 /\ arcs = first_run.arcs

Solve ==
    /\ program = "belts"
    /\ pc = "built"
    /\ \E f \in (IF SameMaxFlowInput THEN {first_run.arc_flow} ELSE MaxFlows(arcs)) :
          /\ arc_flow' = f
          /\ max_flow' = FlowValue(f, arcs)
    /\ pc' = "solved"
    /\ UNCHANGED <<process_vars, stderr, input, belts_graph, factory_vars, stdout, exit_code>>

EmitInfeasible ==
    /\ program = "belts"
    /\ pc = "solved"
    /\ max_flow < total_demand_from_s_star - Tolerance
    /\ LET R == reachable_nodes
       IN  stdout' = Append(stdout,
              [status |-> "infeasible",
               cut_reachable |-> JsonArray(R),
               deficit |-> [demand_balance |-> total_demand_from_s_star - max_flow,
                            tight_nodes |-> JsonArray(tight_nodes_set(R)),
                            tight_edges |-> JsonArray(tight_edges_json(R, 0, 1))]])
    /\ pc' = "returned"
    /\ UNCHANGED <<process_vars, stderr, input, belts_vars, factory_vars, exit_code>>

EmitOk ==
    /\ program = "belts"
    /\ pc = "solved"
    /\ ~(max_flow < total_demand_from_s_star - Tolerance)
    /\ stdout' = Append(stdout,
          [status |-> "ok", max_flow_per_min |-> total_supply, flows |-> FlowsJson(1)])
    /\ pc' = "returned"
    /\ UNCHANGED <<process_vars, stderr, input, belts_vars, factory_vars, exit_code>>

\* the catch-all of main
BeltsMainCatch ==
    /\ program = "belts"
    /\ pc = "thrown"
    /\ stderr' = Append(stderr, "Unhandled exception")
    /\ exit_code' = ExitStatus(TRUE)
    /\ pc' = "exited"
    /\ UNCHANGED <<process_vars, input, belts_vars, factory_vars, stdout>>

BeltsMainReturn ==
    /\ program = "belts"
    /\ pc = "returned"
    /\ exit_code' = ExitStatus(FALSE)
    /\ pc' = "exited"
    /\ UNCHANGED <<process_vars, stderr, input, belts_vars, factory_vars, stdout>>

NextBelts ==
    \/ BeltsParseError
    \/ BeltsReadInput
    \/ BeltsReadThrows
    \/ BeltsMainCatch
    \/ PrecheckInfeasible
    \/ BuildGraph
    \/ Solve
    \/ EmitInfeasible
    \/ EmitOk
    \/ BeltsMainReturn

SpecBelts == InitBelts /\ [][NextBelts]_vars

----------------------------------------------------------------------------
(* factory: the instance *)

MaxRawSupply == 1      \* largest raw_supply_per_min
MaxMachines  == 1      \* largest max_machines cap
MaxRate      == 2      \* largest target rate_per_min

\* Recipe names in the order std::map<std::string, Recipe> iterates them.
RecipeOrder == <<"r1", "r2">>

InBag  == {<<>>, [ore |-> 1], [gear |-> 1]}
OutBag == {[plate |-> 1], [gear |-> 1], [gear |-> 1, plate |-> 1], [ore |-> 1]}

RecipeData(machines) == [machine : machines, time_s : {60}, in : InBag, out : OutBag]

\* The instances explored: no recipe, r1 alone, or r1 and r2 (r2 on the assembler);
\* ore is the one raw item, plate the target, gear an intermediate; the furnace may
\* carry a productivity or a speed module and may be capped.
FactoryInputs ==
    [ machines : {[furnace |-> [crafts_per_min |-> 1], assembler |-> [crafts_per_min |-> 2]]},
      modules  : {<<>>, [furnace |-> [prod |-> 1]], [furnace |-> [speed |-> 1]]},
      recipes  : {<<>>} \cup [{"r1"} -> RecipeData({"furnace", "assembler"})]
                 \cup {[n \in {"r1", "r2"} |-> IF n = "r1" THEN a ELSE b] :
                          a \in RecipeData({"furnace", "assembler"}),
                          b \in RecipeData({"assembler"})},
      limits   : [max_machines : {<<>>} \cup [{"furnace"} -> 1..MaxMachines],
                  raw_supply_per_min : [{"ore"} -> 0..MaxRawSupply]],
      target   : [item : {"plate"}, rate_per_min : 1..MaxRate] ]

\* Well-formed documents that lack one of the keys solve_factory reads (with at
\* most one recipe, run on the furnace, and no module).
FactoryInputsLackingKey ==
    LET machines_ == {[furnace |-> [crafts_per_min |-> 1], assembler |-> [crafts_per_min |-> 2]]}
        recipes_  == {<<>>} \cup [{"r1"} -> RecipeData({"furnace"})]
        caps_     == {<<>>} \cup [{"furnace"} -> 1..MaxMachines]
        raw_      == [{"ore"} -> 0..MaxRawSupply]
        limits_   == [max_machines : caps_, raw_supply_per_min : raw_]
        target_   == [item : {"plate"}, rate_per_min : 1..MaxRate]
    IN  [modules : {<<>>}, recipes : recipes_, limits : limits_, target : target_]
        \cup [machines : machines_, modules : {<<>>}, limits : limits_, target : target_]
        \cup [machines : machines_, modules : {<<>>}, recipes : recipes_, target : target_]
        \cup [machines : machines_, modules : {<<>>}, recipes : recipes_, limits : limits_]
        \cup [machines : machines_, modules : {<<>>}, recipes : recipes_,
              limits : [raw_supply_per_min : raw_], target : target_]
        \cup [machines : machines_, modules : {<<>>}, recipes : recipes_,
              limits : [max_machines : caps_], target : target_]

\* What standard input may hold: text that is not JSON, or a JSON object.
FactoryStdin ==
    [wellformed : {FALSE}, json : {<<>>}]
    \cup [wellformed : {TRUE}, json : FactoryInputs \cup FactoryInputsLackingKey]

\* items() over the null that operator[] makes of an absent key runs no step
limits ==
    IF "limits" \in DOMAIN input THEN input.limits ELSE <<>>

target_item           == input.target.item
requested_target_rate == input.target.rate_per_min
raw_caps              ==
    IF "raw_supply_per_min" \in DOMAIN limits THEN limits.raw_supply_per_min ELSE <<>>
machine_caps          ==
    IF "max_machines" \in DOMAIN limits THEN limits.max_machines ELSE <<>>
raw_items             == DOMAIN raw_caps
recipes               == IF "recipes" \in DOMAIN input THEN input.recipes ELSE <<>>
NumRecipes            == Cardinality(DOMAIN recipes)

\* the name of the i-th recipe variable (variables are made in map order)
RecipeAt(i) == RecipeOrder[i]
HasRecipe(i) == i <= Len(RecipeOrder) /\ RecipeAt(i) \in DOMAIN recipes

\* all_items after the target is erased
all_items ==
    (raw_items
     \cup UNION {DOMAIN recipes[r].in : r \in DOMAIN recipes}
     \cup UNION {DOMAIN recipes[r].out : r \in DOMAIN recipes}) \ {target_item}

intermediate_items == all_items \ raw_items

mod_speed(machine) ==
    IF machine \in DOMAIN input.modules /\ "speed" \in DOMAIN input.modules[machine]
    THEN input.modules[machine].speed ELSE 0

mod_prod(machine) ==
    IF machine \in DOMAIN input.modules /\ "prod" \in DOMAIN input.modules[machine]
    THEN input.modules[machine].prod ELSE 0

prod_mult(r) == 1 + mod_prod(recipes[r].machine)

\* eff_crafts_per_min times time_s: base_speed * (1 + mod_speed) * 60
EffCraftsTimesTime(r) ==
    input.machines[recipes[r].machine].crafts_per_min * (1 + mod_speed(recipes[r].machine)) * 60

ImpossibleCost == 1000000   \* the 1e30 of a recipe that cannot be crafted

\* machine_cost_per_craft = 1 / eff_crafts_per_min, held in half machines
\* (2 * time_s / (base_speed * (1 + mod_speed) * 60), exact on the instances)
machine_cost_per_craft(r) ==
    IF EffCraftsTimesTime(r) > Tolerance
    THEN (2 * recipes[r].time_s) \div EffCraftsTimesTime(r)
    ELSE ImpossibleCost

----------------------------------------------------------------------------
(* factory: exact linear programs over at most two recipe variables.          *)
(* A point is n / d with n a pair of integers and d > 0; a row is             *)
(* lo <= a . x (<= hi when bounded); all variables are >= 0.                  *)

Abs(i) == IF i < 0 THEN -i ELSE i

RECURSIVE GCD(_, _)
GCD(a, b) == IF b = 0 THEN a ELSE GCD(b, a % b)

\* the rational n / d in lowest terms
Rat(n, d) ==
    LET g == GCD(Abs(n), Abs(d))
        sgn == IF d < 0 THEN -1 ELSE 1
    IN  [num |-> (sgn * n) \div g, den |-> (sgn * d) \div g]

RatLeq(p, q) == p.num * q.den <= q.num * p.den
RatLess(p, q) == p.num * q.den < q.num * p.den
Zero == [num |-> 0, den |-> 1]

Point(n1, n2, d) ==
    LET g == GCD(GCD(Abs(n1), Abs(n2)), Abs(d))
        sgn == IF d < 0 THEN -1 ELSE 1
    IN  [n |-> <<(sgn * n1) \div g, (sgn * n2) \div g>>, d |-> (sgn * d) \div g]

Dot(a, p) == a[1] * p.n[1] + a[2] * p.n[2]

\* value of the linear form a at the point p
ValueAt(a, p) == Rat(Dot(a, p), p.d)

Row(name, a, lo, hi, bounded) ==
    [name |-> name, a |-> a, lo |-> lo, hi |-> hi, bounded |-> bounded]

Satisfies(p, row) ==
    /\ row.lo * p.d <= Dot(row.a, p)
    /\ row.bounded => Dot(row.a, p) <= row.hi * p.d

IsFeasiblePoint(p, rows) ==
    /\ p.n[1] >= 0 /\ p.n[2] >= 0
    /\ \A row \in rows : Satisfies(p, row)

\* the lines on which a constraint is tight
BoundaryLines(rows) ==
    {[a |-> <<1, 0>>, b |-> 0], [a |-> <<0, 1>>, b |-> 0]}
    \cup {[a |-> row.a, b |-> row.lo] : row \in rows}
    \cup {[a |-> row.a, b |-> row.hi] : row \in {r \in rows : r.bounded}}

Det(l1, l2) == l1.a[1] * l2.a[2] - l1.a[2] * l2.a[1]

Meet(l1, l2) ==
    Point(l1.b * l2.a[2] - l1.a[2] * l2.b, l1.a[1] * l2.b - l1.b * l2.a[1], Det(l1, l2))

\* the basic feasible solutions
FeasibleVertices(rows) ==
    LET lines == BoundaryLines(rows)
        pairs == {pr \in lines \X lines : Det(pr[1], pr[2]) # 0}
    IN  {p \in {Meet(pr[1], pr[2]) : pr \in pairs} : IsFeasiblePoint(p, rows)}

\* directions along which the feasible region never ends
RecessionRays(rows) ==
    LET cand == {<<1, 0>>, <<0, 1>>}
                \cup {<<-row.a[2], row.a[1]>> : row \in rows}
                \cup {<<row.a[2], -row.a[1]>> : row \in rows}
        along(a, dir) == a[1] * dir[1] + a[2] * dir[2]
    IN  {dir \in cand :
            /\ dir[1] >= 0 /\ dir[2] >= 0 /\ dir # <<0, 0>>
            /\ \A row \in rows :
                  /\ along(row.a, dir) >= 0
                  /\ row.bounded => along(row.a, dir) <= 0}

\* MPSolver::Solve maximizing c . x: the status and the optimal basic solutions
LPMaximize(rows, c) ==
    LET V == FeasibleVertices(rows)
    IN  IF V = {} THEN [status |-> "INFEASIBLE", solutions |-> {}]
        ELSE IF \E dir \in RecessionRays(rows) : c[1] * dir[1] + c[2] * dir[2] > 0
        THEN [status |-> "UNBOUNDED", solutions |-> {}]
        ELSE [status |-> "OPTIMAL",
              solutions |-> {p \in V : \A q \in V : RatLeq(ValueAt(c, q), ValueAt(c, p))}]

LPMinimize(rows, c) == LPMaximize(rows, <<-c[1], -c[2]>>)

----------------------------------------------------------------------------
(* factory: the two linear programs of solve_factory *)

\* the vector of one number per recipe variable (0 where there is no recipe)
PerRecipe(f) ==
    <<IF HasRecipe(1) THEN f[RecipeAt(1)] ELSE 0,
      IF HasRecipe(2) THEN f[RecipeAt(2)] ELSE 0>>

\* Coefficient of x_r in the balance row of `item` after the two SetCoefficient
\* loops: the loop over r.out runs last and SetCoefficient replaces what the loop
\* over r.in has set.
BalanceCoefficient(r, item) ==
    IF item \in DOMAIN recipes[r].out THEN recipes[r].out[item] * prod_mult(r)
    ELSE IF item \in DOMAIN recipes[r].in THEN -recipes[r].in[item]
    ELSE 0

BalanceRowCoefficients(item) == PerRecipe([r \in DOMAIN recipes |-> BalanceCoefficient(r, item)])

\* a wrong coefficient, which charges a recipe to the rows of the other machines
UsageCoefficientOfOtherMachines(r, machine) ==
    IF recipes[r].machine # machine THEN machine_cost_per_craft(r) ELSE 0

\* coefficient of x_r in the usage row of `machine`, in half machines
UsageCoefficient(r, machine) ==
    IF recipes[r].machine = machine THEN machine_cost_per_craft(r) ELSE 0

\* balance rows of the raw and intermediate items
ItemRows ==
    {Row(<<"balance", item>>, BalanceRowCoefficients(item),
         IF item \in raw_items THEN -raw_caps[item] ELSE 0, 0, TRUE) : item \in all_items}

\* machine usage rows, one per capped machine, in half machines
MachineRows ==
    {Row(<<"cap", m>>, PerRecipe([r \in DOMAIN recipes |-> UsageCoefficient(r, m)]), 0, 2 * machine_caps[m], TRUE)
        : m \in DOMAIN machine_caps}

\* Phase 1: the target row is balance - T = 0 with T >= 0 free above
Phase1Rows ==
    ItemRows \cup MachineRows
    \cup {Row(<<"balance", target_item>>, BalanceRowCoefficients(target_item), 0, 0, FALSE)}

\* Phase 2: the target row is pinned to the requested rate
Phase2Rows ==
    ItemRows \cup MachineRows
    \cup {Row(<<"balance", target_item>>, BalanceRowCoefficients(target_item),
              requested_target_rate, requested_target_rate, TRUE)}

\* objective of Phase 2: total machines, in half machines
MachineObjective == PerRecipe([r \in DOMAIN recipes |-> machine_cost_per_craft(r)])

\* value of the optimum of a bounded feasible program, or none
OptimalValue(rows, c) ==
    LET lp == LPMaximize(rows, c)
    IN  IF lp.status = "OPTIMAL"
        THEN [ok |-> TRUE, value |-> ValueAt(c, CHOOSE p \in lp.solutions : TRUE)]
        ELSE [ok |-> FALSE, value |-> Zero]

RatMinus(p, q) == Rat(p.num * q.den - q.num * p.den, p.den * q.den)

\* the rows with every bound multiplied by k (the program in units of 1/k)
ScaledRows(rows, k) ==
    {Row(row.name, row.a, k * row.lo, k * row.hi, row.bounded) : row \in rows}

\* the rows with the bounds of the row `name` moved by dlo and dhi
ShiftedRows(rows, name, dlo, dhi) ==
    {IF row.name = name THEN Row(row.name, row.a, row.lo + dlo, row.hi + dhi, row.bounded)
     ELSE row : row \in rows}

\* Values MPConstraint::dual_value() may take for the row `name` at the optimal
\* solution x of maximizing c: the change of the optimum per unit of the bound
\* the row is tight at, taken to either side (the two differ only at a
\* degenerate optimum); 0 for a row that is not tight. The bound is moved by
\* 1/60, less than the distance to the next change of basis on these instances.
DualValues(rows, c, x, name) ==
    LET row  == CHOOSE r \in rows : r.name = name
        atLo == Dot(row.a, x) = row.lo * x.d
        atHi == row.bounded /\ Dot(row.a, x) = row.hi * x.d
        dlo  == IF atLo THEN 1 ELSE 0
        dhi  == IF atHi THEN 1 ELSE 0
        unit == ScaledRows(rows, 60)
        base == OptimalValue(unit, c)
        up   == OptimalValue(ShiftedRows(unit, name, dlo, dhi), c)
        down == OptimalValue(ShiftedRows(unit, name, -dlo, -dhi), c)
        both == (IF up.ok THEN {RatMinus(up.value, base.value)} ELSE {})
                \cup (IF down.ok THEN {RatMinus(base.value, down.value)} ELSE {})
    IN  IF (~atLo /\ ~atHi) \/ both = {} THEN {Zero} ELSE both

\* The dual values the Phase 1 solve may leave on the rows that the certificate
\* reads (the usage rows and the balance rows of raw items), at the solution x.
Phase1Duals(x) ==
    LET c     == BalanceRowCoefficients(target_item)
        names == {<<"cap", m>> : m \in DOMAIN machine_caps}
                 \cup {<<"balance", i>> : i \in (all_items \cup {target_item}) \cap raw_items}
        cands == [n \in names |-> DualValues(Phase1Rows, c, x, n)]
    IN  {f \in [names -> UNION {cands[n] : n \in names}] :
            \A n \in names : f[n] \in cands[n]}

\* A hint is a string; name + suffix is kept as the pair of its two parts, and
\* a fixed text is the pair of the text and the empty suffix.
Hint(name, suffix) == <<name, suffix>>

\* the hints of the bottleneck certificate, given the dual value of every row
bottleneck_hints(dual) ==
    LET hints == {Hint(m, " cap") : m \in {k \in DOMAIN machine_caps :
                                            RatLess(Rat(Tolerance, 1), dual[<<"cap", k>>])}}
                 \cup {Hint(item, " supply") : item \in {i \in (all_items \cup {target_item}) \cap raw_items :
                                            RatLess(Rat(Tolerance, 1), dual[<<"balance", i>>])}}
    IN  IF hints = {} /\ RatLess(Rat(Tolerance, 1), phase1.max_feasible_rate)
        THEN {Hint("Target rate conflicts with other constraints", "")}
        ELSE IF hints = {} THEN {Hint("Unknown bottleneck, possibly no production path", "")}
        ELSE hints

RecipeIndex(r) == CHOOSE i \in 1..Len(RecipeOrder) : RecipeOrder[i] = r

\* x2[name]->solution_value()
crafts(r) == Rat(phase2.x.n[RecipeIndex(r)], phase2.x.d)

IsPositive(q) == RatLess(Zero, q)

RECURSIVE RatSum(_, _)
\* sum of the rationals f[k], k in S
RatSum(f, S) ==
    IF S = {} THEN Zero
    ELSE LET k == CHOOSE x \in S : TRUE
             rest == RatSum(f, S \ {k})
         IN  Rat(f[k].num * rest.den + rest.num * f[k].den, f[k].den * rest.den)

RatTimes(q, i) == Rat(q.num * i, q.den)

per_recipe_crafts ==
    [r \in DOMAIN recipes |-> IF IsPositive(crafts(r)) THEN crafts(r) ELSE Zero]

\* a wrong accumulation, which counts the capped machines only
per_machine_counts_of_capped ==
    LET used == {r \in DOMAIN recipes : IsPositive(crafts(r))}
    IN  [m \in DOMAIN machine_caps |->
            LET on == {r \in used : recipes[r].machine = m}
                half == RatSum([r \in on |-> RatTimes(crafts(r), machine_cost_per_craft(r))], on)
            IN  Rat(half.num, 2 * half.den)]

\* Keys: every capped machine, and (through operator[] in the accumulation) the
\* machine of every recipe with positive crafts. Values are in machines.
per_machine_counts ==
    LET used == {r \in DOMAIN recipes : IsPositive(crafts(r))}
    IN  [m \in DOMAIN machine_caps \cup {recipes[r].machine : r \in used} |->
            LET on == {r \in used : recipes[r].machine = m}
                half == RatSum([r \in on |-> RatTimes(crafts(r), machine_cost_per_craft(r))], on)
            IN  Rat(half.num, 2 * half.den)]

\* minus the activity of the item's Phase 2 balance row
raw_consumption ==
    [item \in raw_items |->
        LET consumption == ValueAt(BalanceRowCoefficients(item),
                                   [n |-> <<-phase2.x.n[1], -phase2.x.n[2]>>, d |-> phase2.x.d])
        IN  IF IsPositive(consumption) THEN consumption ELSE Zero]

----------------------------------------------------------------------------
(* factory: the steps of solve_factory and main *)

InitFactory ==
    /\ program = "factory"
    /\ stdin \in FactoryStdin
    /\ run = 1
    /\ first_run = <<>>
    /\ input = <<>>
    /\ pc = "start"
    /\ stderr = <<>>
    /\ index_to_name_map = <<>>
    /\ edge_arc_index = <<>>
    /\ total_demand_from_s_star = 0
    /\ arcs = <<>>
    /\ arc_flow = <<>>
    /\ max_flow = 0
    /\ phase1 = <<>>
    /\ phase2 = <<>>
    /\ stdout = <<>>
    /\ exit_code = -1

\* std::cin >> input throws json::parse_error: the handler in solve_factory
\* writes the diagnostic and returns to main
FactoryParseError ==
    /\ program = "factory"
    /\ pc = "start"
    /\ ~stdin.wellformed
    /\ stderr' = Append(stderr, "JSON parse error")
    /\ pc' = "returned"
    /\ UNCHANGED <<process_vars, input, belts_vars, factory_vars, stdout, exit_code>>

\* The reads that throw json::type_error on the null of an absent key: the
\* target (item to a std::string, rate_per_min to a double) and, once per recipe,
\* the crafts_per_min of its machine.
FactoryReadFails(json) ==
    \/ "target" \notin DOMAIN json
    \/ /\ "machines" \notin DOMAIN json
       /\ "recipes" \in DOMAIN json
       /\ DOMAIN json.recipes # {}

\* the document parses and the target, the limits and the recipes are read from it
FactoryReadInput ==
    /\ program = "factory"
    /\ pc = "start"
    /\ stdin.wellformed
    /\ ~FactoryReadFails(stdin.json)
    /\ input' = stdin.json
    /\ pc' = "parsed"
    /\ UNCHANGED <<process_vars, belts_vars, factory_vars, stdout, stderr, exit_code>>

\* a conversion of an absent key throws out of solve_factory
FactoryReadThrows ==
    /\ program = "factory"
    /\ pc = "start"
    /\ stdin.wellformed
    /\ FactoryReadFails(stdin.json)
    /\ pc' = "thrown"
    /\ UNCHANGED <<process_vars, input, belts_vars, factory_vars, stdout, stderr, exit_code>>

\* Phase 1 ends neither OPTIMAL nor FEASIBLE
Phase1SolverFailure ==
    /\ program = "factory"
    /\ pc = "parsed"
    /\ LPMaximize(Phase1Rows, BalanceRowCoefficients(target_item)).status # "OPTIMAL"
    /\ stdout' = Append(stdout,
          [status |-> "infeasible",
           max_feasible_target_per_min |-> Zero,
           bottleneck_hint |-> {Hint("Initial solver failure", "")}])
    /\ pc' = "returned"
    /\ UNCHANGED <<process_vars, stderr, input, belts_vars, factory_vars, exit_code>>

\* The LP solver is deterministic: in a second run that hands it the rows of the
\* first run, over the variables in the same order, it returns the same values.
SamePhase1Input ==
    run = 2 /\ DOMAIN first_run.phase1 # {} /\ first_run.phase1_rows = Phase1Rows

SamePhase2Input ==
    run = 2 /\ DOMAIN first_run.phase2 # {} /\ first_run.phase2_rows = Phase2Rows

SolvePhase1 ==
    /\ program = "factory"
    /\ pc = "parsed"
    /\ LET lp == LPMaximize(Phase1Rows, BalanceRowCoefficients(target_item))
       IN  /\ lp.status = "OPTIMAL"
           /\ IF SamePhase1Input
              THEN phase1' = first_run.phase1
              ELSE \E p \in lp.solutions : \E dual \in Phase1Duals(p) :
                      phase1' = [x |-> p,
                                 max_feasible_rate |-> ValueAt(BalanceRowCoefficients(target_item), p),
                                 dual_value |-> dual]
    /\ pc' = "phase1"
    /\ UNCHANGED <<process_vars, stderr, input, belts_vars, phase2, stdout, exit_code>>

FactoryInfeasible ==
    /\ program = "factory"
    /\ pc = "phase1"
    /\ RatLess(phase1.max_feasible_rate, Rat(requested_target_rate - Tolerance, 1))
    /\ stdout' = Append(stdout,
          [status |-> "infeasible",
           max_feasible_target_per_min |-> phase1.max_feasible_rate,
           bottleneck_hint |-> bottleneck_hints(phase1.dual_value)])
    /\ pc' = "returned"
    /\ UNCHANGED <<process_vars, stderr, input, belts_vars, factory_vars, exit_code>>

SolvePhase2 ==
    /\ program = "factory"
    /\ pc = "phase1"
    /\ ~RatLess(phase1.max_feasible_rate, Rat(requested_target_rate - Tolerance, 1))
    /\ LET lp == LPMinimize(Phase2Rows, MachineObjective)
       IN  IF lp.status = "OPTIMAL"
           THEN /\ IF SamePhase2Input
                   THEN phase2' = first_run.phase2
                   ELSE \E p \in lp.solutions : phase2' = [x |-> p]
                /\ pc' = "phase2"
                /\ UNCHANGED stdout
           ELSE /\ stdout' = Append(stdout,
                      [status |-> "infeasible",
                       max_feasible_target_per_min |-> phase1.max_feasible_rate,
                       bottleneck_hint |-> {Hint("Phase 2 solver failure", "")}])
                /\ pc' = "returned"
                /\ UNCHANGED phase2
    /\ UNCHANGED <<process_vars, stderr, input, belts_vars, phase1, exit_code>>

FactoryOk ==
    /\ program = "factory"
    /\ pc = "phase2"
    /\ stdout' = Append(stdout,
          [status |-> "ok",
           per_recipe_crafts_per_min |-> per_recipe_crafts,
           per_machine_counts |-> per_machine_counts,
           raw_consumption_per_min |-> raw_consumption])
    /\ pc' = "returned"
    /\ UNCHANGED <<process_vars, stderr, input, belts_vars, factory_vars, exit_code>>

\* the catch-all of main
FactoryMainCatch ==
    /\ program = "factory"
    /\ pc = "thrown"
    /\ stderr' = Append(stderr, "Unhandled exception")
    /\ exit_code' = ExitStatus(TRUE)
    /\ pc' = "exited"
    /\ UNCHANGED <<process_vars, input, belts_vars, factory_vars, stdout>>

FactoryMainReturn ==
    /\ program = "factory"
    /\ pc = "returned"
    /\ exit_code' = ExitStatus(FALSE)
    /\ pc' = "exited"
    /\ UNCHANGED <<process_vars, stderr, input, belts_vars, factory_vars, stdout>>

NextFactory ==
    \/ FactoryParseError
    \/ FactoryReadInput
    \/ FactoryReadThrows
    \/ FactoryMainCatch
    \/ Phase1SolverFailure
    \/ SolvePhase1
    \/ FactoryInfeasible
    \/ SolvePhase2
    \/ FactoryOk
    \/ FactoryMainReturn

SpecFactory == InitFactory /\ [][NextFactory]_vars

----------------------------------------------------------------------------
(* either executable *)

Init == InitBelts \/ InitFactory

Next == NextBelts \/ NextFactory

Spec == Init /\ [][Next]_vars

\* The process is started a second time on the same standard input; what the
\* first run wrote, its exit status, and what its solvers were given and
\* returned are kept for comparison.
Rerun ==
    /\ pc = "exited"
    /\ run = 1
    /\ run' = 2
    /\ first_run' = [stdout      |-> stdout,
                     exit_code   |-> exit_code,
                     arcs        |-> arcs,
                     arc_flow    |-> arc_flow,
                     phase1_rows |-> IF program = "factory" /\ DOMAIN phase1 # {}
                                     THEN Phase1Rows ELSE {},
                     phase1      |-> phase1,
                     phase2_rows |-> IF program = "factory" /\ DOMAIN phase2 # {}
                                     THEN Phase2Rows ELSE {},
                     phase2      |-> phase2]
    /\ pc' = "start"
    /\ input' = <<>>
    /\ index_to_name_map' = <<>>
    /\ edge_arc_index' = <<>>
    /\ total_demand_from_s_star' = 0
    /\ arcs' = <<>>
    /\ arc_flow' = <<>>
    /\ max_flow' = 0
    /\ phase1' = <<>>
    /\ phase2' = <<>>
    /\ stdout' = <<>>
    /\ stderr' = <<>>
    /\ exit_code' = -1
    /\ UNCHANGED <<program, stdin>>

NextTwice == Next \/ Rerun

SpecTwice == Init /\ [][NextTwice]_vars

----------------------------------------------------------------------------
(* belts: what the claims speak about *)

BeltsAnswered == pc \in {"returned", "exited"} /\ Len(stdout) = 1
BeltsOk         == BeltsAnswered /\ stdout[1].status = "ok"
BeltsInfeasible == BeltsAnswered /\ stdout[1].status = "infeasible"

\* flow into and out of a node under a flow f of the original edges
EdgeInflow(f, n) ==
    SumSeq([k \in 1..NumEdges |-> IF original_edges[k].to = n THEN f[k] ELSE 0])
EdgeOutflow(f, n) ==
    SumSeq([k \in 1..NumEdges |-> IF original_edges[k].from = n THEN f[k] ELSE 0])

\* f routes every supply to the sink within all bounds of the original graph
IsFeasibleRouting(f) ==
    /\ \A k \in 1..NumEdges :
          original_edges[k].lower_bound <= f[k] /\ f[k] <= original_edges[k].upper_bound
    /\ \A n \in all_node_names :
          IF n \in DOMAIN sources THEN EdgeOutflow(f, n) - EdgeInflow(f, n) = sources[n]
          ELSE IF n = sink_node THEN EdgeInflow(f, n) - EdgeOutflow(f, n) = total_supply
          ELSE /\ EdgeInflow(f, n) = EdgeOutflow(f, n)
               /\ n \in DOMAIN node_caps => EdgeInflow(f, n) <= node_caps[n]

OriginalFeasible == \E f \in [1..NumEdges -> 0..MaxUpper] : IsFeasibleRouting(f)

\* the linear chain A -> B -> C with one source A, both edges bounded [0, hi]
IsChain(supply, hi) ==
    /\ sources = [n \in {"A"} |-> supply]
    /\ original_edges = <<[from |-> "A", to |-> "B", lower_bound |-> 0, upper_bound |-> hi],
                          [from |-> "B", to |-> "C", lower_bound |-> 0, upper_bound |-> hi]>>

\* the flow stdout reports for edge k: its entry of `flows`, or 0 when it has none.
\* Entries are in edge order and an edge has one iff the program wrote it.
EmittedFlow(k) ==
    LET written == {j \in 1..k : final_flow(j) > Tolerance}
    IN  IF k \in written THEN stdout[1].flows[Cardinality(written)].flow ELSE 0

EmittedFlows == [k \in 1..NumEdges |-> EmittedFlow(k)]

\* C1: with every upper_bound >= lower_bound, the answer is "ok" exactly when the
\* original graph has a routing of all supply to the sink within the edge bounds
\* and node caps; the chain A -> B -> C with supply s and bounds [0, s] answers
\* ok with max_flow_per_min = s and flow s on both edges.
C1_OkIffFeasible ==
    (BeltsAnswered /\ FirstBadEdge = 0) =>
        /\ BeltsOk <=> OriginalFeasible
        /\ (IsChain(MaxSupply, MaxUpper) /\ node_caps = <<>>) =>
              /\ BeltsOk
              /\ stdout[1].max_flow_per_min = MaxSupply
              /\ EmittedFlows = <<MaxSupply, MaxSupply>>

\* C2: in an "ok" answer the emitted flows conserve at every intermediate node,
\* deliver total_supply net into the sink and take supply[s] net out of each source.
C2_OkConserves ==
    BeltsOk =>
        \A n \in all_node_names :
            IF n \in DOMAIN sources
            THEN EdgeOutflow(EmittedFlows, n) - EdgeInflow(EmittedFlows, n) = sources[n]
            ELSE IF n = sink_node
            THEN EdgeInflow(EmittedFlows, n) - EdgeOutflow(EmittedFlows, n) = total_supply
            ELSE EdgeInflow(EmittedFlows, n) = EdgeOutflow(EmittedFlows, n)

\* C6: in an "ok" answer every original edge, parallel ones each on its own,
\* carries lower_bound <= flow <= upper_bound (0 for an edge left out of `flows`).
C6_OkWithinEdgeBounds ==
    BeltsOk =>
        \A k \in 1..NumEdges :
            /\ original_edges[k].lower_bound <= EmittedFlow(k)
            /\ EmittedFlow(k) <= original_edges[k].upper_bound

\* an "ok" answer over two parallel edges, one of them with a positive lower
\* bound, both carrying flow
C6_Witness ==
    /\ BeltsOk
    /\ NumEdges = 2
    /\ original_edges[1].from = original_edges[2].from
    /\ original_edges[1].to = original_edges[2].to
    /\ original_edges[1].lower_bound > 0
    /\ Len(stdout[1].flows) = 2
    /\ total_supply > 0

\* C9: on the chain A -> B -> C whose middle node B is capped below the supply,
\* the answer is "infeasible", cut_reachable holds A and B, tight_nodes holds B
\* and demand_balance is the supply minus the cap.
C9_NodeCapCertificate ==
    (BeltsAnswered /\ IsChain(MaxSupply, MaxUpper) /\ DOMAIN node_caps = {"B"}
        /\ node_caps["B"] < MaxSupply) =>
        /\ BeltsInfeasible
        /\ {"A", "B"} \subseteq stdout[1].cut_reachable.items
        /\ "B" \in stdout[1].deficit.tight_nodes.items
        /\ stdout[1].deficit.demand_balance = MaxSupply - node_caps["B"]

\* capacity of the arcs of the transformed graph that leave the index set S
CutCapacity(S) ==
    SumSeq([k \in 1..NumArcs |->
              IF arcs[k].tail \in S /\ arcs[k].head \notin S THEN arcs[k].capacity ELSE 0])

\* C10: on an "infeasible" answer of the max-flow path, the arcs leaving s_star
\* and the nodes named in cut_reachable have total capacity
\* total_demand_from_s_star - deficit.demand_balance.
C10_CutCapacityIsMaxFlow ==
    (BeltsInfeasible /\ FirstBadEdge = 0) =>
        CutCapacity({s_star} \cup {i \in DOMAIN index_to_name_map :
                                      index_to_name_map[i] \in stdout[1].cut_reachable.items})
            = total_demand_from_s_star - stdout[1].deficit.demand_balance

----------------------------------------------------------------------------
(* factory: what the claims speak about *)

FactoryAnswered == pc \in {"returned", "exited"} /\ Len(stdout) = 1
FactoryOkAnswer == FactoryAnswered /\ stdout[1].status = "ok"

\* the emitted plan
EmittedCrafts(r) == stdout[1].per_recipe_crafts_per_min[r]

\* out_r[i] * prod_mult_r - in_r[i], from the recipe bags of the input
NetOutput(r, item) ==
    (IF item \in DOMAIN recipes[r].out THEN recipes[r].out[item] * prod_mult(r) ELSE 0)
    - (IF item \in DOMAIN recipes[r].in THEN recipes[r].in[item] ELSE 0)

\* Balance(i) of the emitted plan
EmittedBalance(item) ==
    RatSum([r \in DOMAIN recipes |-> RatTimes(EmittedCrafts(r), NetOutput(r, item))],
           DOMAIN recipes)

\* machines of type m the emitted plan uses
EmittedUsage(m) ==
    LET on == {r \in DOMAIN recipes : recipes[r].machine = m}
        half == RatSum([r \in on |-> RatTimes(EmittedCrafts(r), machine_cost_per_craft(r))], on)
    IN  Rat(half.num, 2 * half.den)

\* total machines of the emitted plan, over all recipes, in half machines
EmittedTotalHalfMachines ==
    RatSum([r \in DOMAIN recipes |-> RatTimes(EmittedCrafts(r), machine_cost_per_craft(r))],
           DOMAIN recipes)

\* the constraints of the instance as the data model states them: balances from
\* the recipe bags, raw and machine caps, the target at the requested rate
InstanceRows ==
    {Row(<<"balance", item>>, PerRecipe([r \in DOMAIN recipes |-> NetOutput(r, item)]),
         IF item \in raw_items THEN -raw_caps[item] ELSE 0, 0, TRUE) : item \in all_items}
    \cup {Row(<<"cap", m>>,
              PerRecipe([r \in DOMAIN recipes |-> IF recipes[r].machine = m THEN machine_cost_per_craft(r) ELSE 0]),
              0, 2 * machine_caps[m], TRUE) : m \in DOMAIN machine_caps}
    \cup {Row(<<"balance", target_item>>, PerRecipe([r \in DOMAIN recipes |-> NetOutput(r, target_item)]),
              requested_target_rate, requested_target_rate, TRUE)}

\* The plans x >= 0 of the instance form a polyhedron without lines: it is
\* non-empty iff it has a vertex, and a cost bounded below is least at a vertex.
InstancePlans == FeasibleVertices(InstanceRows)

\* C3: in an "ok" plan the balance of every intermediate item, computed from the
\* emitted crafts and the recipe bags, is 0.
C3_IntermediateBalanced ==
    FactoryOkAnswer => \A item \in intermediate_items : EmittedBalance(item) = Zero

\* C4: the answer is "ok" exactly when some plan x >= 0 meets the balances, the
\* raw caps, the machine caps and the requested target rate.
C4_OkIffPlanExists ==
    FactoryAnswered => (stdout[1].status = "ok" <=> InstancePlans # {})

\* C5: in an "ok" answer no plan of the instance uses strictly fewer machines in
\* total than the emitted plan.
C5_NoCheaperPlan ==
    FactoryOkAnswer =>
        \A q \in InstancePlans : ~RatLess(ValueAt(MachineObjective, q), EmittedTotalHalfMachines)

\* C7: in an "ok" answer the net consumption of every raw item, computed from the
\* emitted crafts, is at most its cap, and so is the emitted raw_consumption_per_min.
C7_RawWithinCap ==
    FactoryOkAnswer =>
        \A item \in raw_items :
            /\ RatLeq(RatTimes(EmittedBalance(item), -1), Rat(raw_caps[item], 1))
            /\ RatLeq(stdout[1].raw_consumption_per_min[item], Rat(raw_caps[item], 1))

\* C8: in an "ok" answer every machine listed in max_machines is used within its
\* cap, and per_machine_counts reports exactly that usage.
C8_MachinesWithinCap ==
    FactoryOkAnswer =>
        \A m \in DOMAIN machine_caps :
            /\ RatLeq(EmittedUsage(m), Rat(machine_caps[m], 1))
            /\ stdout[1].per_machine_counts[m] = EmittedUsage(m)

\* an "ok" plan that runs a recipe on a capped machine type exactly at its cap
C8_Witness ==
    /\ FactoryOkAnswer
    /\ "furnace" \in DOMAIN machine_caps
    /\ EmittedUsage("furnace") = Rat(machine_caps["furnace"], 1)
    /\ \E r \in DOMAIN recipes : recipes[r].machine = "furnace" /\ IsPositive(EmittedCrafts(r))

\* C15: when an edge has upper_bound < lower_bound, belts prints "infeasible"
\* without running the max-flow solve: cut_reachable and tight_nodes are
\* empty arrays, deficit.tight_edges is an array that cites the edge with
\* flow_needed = upper_bound - lower_bound, and deficit.demand_balance is the
\* total supply.
C15_PrecheckCertificate ==
    (program = "belts" /\ BeltsAnswered /\ FirstBadEdge # 0) =>
        LET edge == original_edges[FirstBadEdge]
            cert == stdout[1]
        IN  /\ cert.status = "infeasible"
            /\ arc_flow = <<>> /\ max_flow = 0
            /\ cert.cut_reachable = JsonArray({})
            /\ cert.deficit.tight_nodes = JsonArray({})
            /\ cert.deficit.tight_edges =
                  JsonArray(<<[from |-> edge.from, to |-> edge.to,
                               flow_needed |-> edge.upper_bound - edge.lower_bound]>>)
            /\ cert.deficit.demand_balance = total_supply

\* the machines on which a recipe of the emitted plan runs at a positive rate
MachinesOfThePlan ==
    {recipes[r].machine : r \in {q \in DOMAIN recipes : IsPositive(EmittedCrafts(q))}}

\* C13 as stated: in every "ok" output the keys of per_machine_counts are exactly
\* the machines listed in limits.max_machines.
C13_MachineCountKeysAreCapped ==
    FactoryOkAnswer =>
        DOMAIN stdout[1].per_machine_counts = DOMAIN machine_caps

\* C13 amended: in every "ok" output the keys of per_machine_counts are the
\* machines listed in limits.max_machines together with the machines on which a
\* recipe of the plan runs at a positive rate; a capped machine the plan does not
\* use has the value 0.
C13_MachineCountKeys ==
    FactoryOkAnswer =>
        /\ DOMAIN stdout[1].per_machine_counts = DOMAIN machine_caps \cup MachinesOfThePlan
        /\ \A m \in DOMAIN machine_caps \ MachinesOfThePlan :
              stdout[1].per_machine_counts[m] = Zero

\* an "ok" output that reports an uncapped machine next to a capped machine the
\* plan leaves idle
C13_Witness ==
    /\ FactoryOkAnswer
    /\ "assembler" \in DOMAIN stdout[1].per_machine_counts
    /\ "furnace" \in DOMAIN machine_caps \ MachinesOfThePlan
    /\ stdout[1].per_machine_counts["furnace"] = Zero

\* Phase 1 has been solved and its optimum is below the requested rate
Phase1BelowTarget ==
    /\ program = "factory"
    /\ pc \in {"returned", "exited"}
    /\ DOMAIN phase1 # {}
    /\ RatLess(phase1.max_feasible_rate, Rat(requested_target_rate - Tolerance, 1))

\* the usage row of every capped machine is below its cap at the Phase 1 optimum
MachineCapsSlack ==
    \A row \in MachineRows : Dot(row.a, phase1.x) < row.hi * phase1.x.d

\* One recipe on the furnace turning one ore into one plate, no module, and ore
\* as the one raw item, capped below the requested rate; no machine cap binds.
OreLimitedScenario ==
    /\ DOMAIN recipes = {"r1"}
    /\ recipes["r1"].machine = "furnace"
    /\ DOMAIN recipes["r1"].in = {"ore"} /\ recipes["r1"].in["ore"] = 1
    /\ DOMAIN recipes["r1"].out = {"plate"} /\ recipes["r1"].out["plate"] = 1
    /\ DOMAIN input.modules = {}
    /\ raw_items = {"ore"} /\ raw_caps["ore"] > 0
    /\ raw_caps["ore"] < requested_target_rate
    /\ target_item = "plate"
    /\ MachineCapsSlack

\* C16: when the Phase 1 optimum max_T is below the requested rate the output is
\* "infeasible" with max_feasible_target_per_min = max_T and a hint for every
\* machine row and raw row whose Phase 1 dual is positive; in the scenario of one
\* recipe ore -> plate with the ore cap below the target, the hint names
\* "ore supply" and max_feasible_target_per_min is the ore cap.
C16_BottleneckCertificate ==
    Phase1BelowTarget =>
        /\ Len(stdout) = 1
        /\ stdout[1].status = "infeasible"
        /\ stdout[1].max_feasible_target_per_min = phase1.max_feasible_rate
        /\ \A m \in DOMAIN machine_caps :
              RatLess(Zero, phase1.dual_value[<<"cap", m>>])
                  => Hint(m, " cap") \in stdout[1].bottleneck_hint
        /\ \A item \in (all_items \cup {target_item}) \cap raw_items :
              RatLess(Zero, phase1.dual_value[<<"balance", item>>])
                  => Hint(item, " supply") \in stdout[1].bottleneck_hint
        /\ OreLimitedScenario =>
              /\ Hint("ore", " supply") \in stdout[1].bottleneck_hint
              /\ stdout[1].max_feasible_target_per_min = Rat(raw_caps["ore"], 1)

----------------------------------------------------------------------------
(* both executables: input errors and the exit status *)

Exited == pc = "exited"

\* the required keys of the document that the JSON object on stdin lacks
MissingRequiredKeys ==
    LET json == stdin.json
        top  == IF program = "belts" THEN {"sources", "sink", "edges"}
                ELSE {"machines", "recipes", "limits", "target"}
        nested == IF program = "factory" /\ "limits" \in DOMAIN json
                  THEN {"max_machines", "raw_supply_per_min"} \ DOMAIN json.limits
                  ELSE {}
    IN  (top \ DOMAIN json) \cup nested

\* C11: when standard input is not well-formed JSON the process writes a
\* diagnostic to standard error, writes nothing to standard output and ends with
\* a nonzero exit status.
C11_MalformedInputFails ==
    (Exited /\ ~stdin.wellformed) =>
        /\ stderr # <<>>
        /\ stdout = <<>>
        /\ exit_code # 0

\* C12: a well-formed document that lacks a required key ends the process with
\* a nonzero exit status and nothing on standard output.
C12_MissingKeyFails ==
    (Exited /\ stdin.wellformed /\ MissingRequiredKeys # {}) =>
        /\ exit_code # 0
        /\ stdout = <<>>

\* an exception has reached the catch-all of main
UnhandledException ==
    pc = "thrown" \/ \E i \in 1..Len(stderr) : stderr[i] = "Unhandled exception"

\* C17: on every path at most one JSON object is written to standard output;
\* a path that reaches an "ok" or "infeasible" verdict writes exactly one and then
\* only exits, with status 0; a path on which an exception reaches the catch-all
\* of main writes none and exits with a nonzero status.
C17_OneObjectOnStdout ==
    /\ Len(stdout) <= 1
    /\ stdout # <<>> =>
          /\ stdout[1].status \in {"ok", "infeasible"}
          /\ pc \in {"returned", "exited"}
          /\ ~UnhandledException
          /\ Exited => exit_code = 0
    /\ (stdin.wellformed /\ pc \in {"returned", "exited"} /\ ~UnhandledException) =>
          Len(stdout) = 1
    /\ UnhandledException =>
          /\ stdout = <<>>
          /\ Exited => exit_code # 0

\* a run in which the conversion of an absent key threw: the catch-all has
\* written to standard error and the process has exited
C17_Witness ==
    /\ Exited
    /\ UnhandledException
    /\ stdout = <<>>
    /\ exit_code = 1

====
